---- MODULE Spec2Model ----
(***************************************************************************)
(* Model of the AI-response parsers and of the category fan-out of the     *)
(* content engine (src/engine/ai_content_generator.py,                     *)
(* src/engine/multi_category_generator.py, src/engine/openrouter_ai.py),   *)
(* of the template generator (src/engine/content_generator.py) and of the  *)
(* /api/generate handler (src/api.py, src/database/supabase_db.py).        *)
(*                                                                         *)
(* A Python str is a sequence of one-character strings; a Python list of   *)
(* str is a sequence of such sequences.  A field of the result dict that   *)
(* the code stores through result[current_section] can hold either a str   *)
(* or a list, so its value carries its Python type: [kind, val].           *)
(***************************************************************************)
EXTENDS Integers, Sequences, FiniteSets, TLC

VARIABLES
    response,     \* the raw completion text handed to a parser
    input,        \* how the text was drawn: its family, markers, layout
    pc,           \* position of the parser run: "start" | "done"
    parser,       \* which parser ran: "none" | "ai" | "multi"
    topic,        \* the topic argument of the parser call
    result,       \* the dict returned by the parser
    raised,       \* TRUE when the call ended by raising
    ga,           \* state of one MultiCategoryGenerator.generate_all call
    api,          \* state of the HTTP service of src/api.py
    db,           \* state of the content_history store and its last call
    tw            \* state of one ContentGenerator._adapt_for_twitter call

vars == <<response, input, pc, parser, topic, result, raised, ga, api, db, tw>>

(***************************************************************************)
(* Python str primitives, computed as CPython computes them.               *)
(***************************************************************************)
NL == "\n"
SP == " "
Whitespace == {" ", "\n", "\t", "\r"}

MinOf(S) == CHOOSE x \in S : \A y \in S : x <= y
MaxOf(S) == CHOOSE x \in S : \A y \in S : x >= y

\* s[i:].startswith(p), i 1-based
StartsWithAt(s, p, i) ==
    /\ i + Len(p) - 1 <= Len(s)
    /\ \A k \in 1..Len(p) : s[i + k - 1] = p[k]

\* s.startswith(p)
StartsWith(s, p) == StartsWithAt(s, p, 1)

\* p in s
Contains(s, p) == \E i \in 1..(Len(s) - Len(p) + 1) : StartsWithAt(s, p, i)

\* s.find(p, i-1) + 1: the first occurrence at or after i, 0 when none
FindFrom(s, p, i) ==
    LET hits == {j \in i..(Len(s) - Len(p) + 1) : StartsWithAt(s, p, j)}
    IN  IF hits = {} THEN 0 ELSE MinOf(hits)

RECURSIVE SplitFrom(_, _, _)
SplitFrom(s, sep, i) ==
    LET j == FindFrom(s, sep, i)
    IN  IF j = 0
        THEN <<SubSeq(s, i, Len(s))>>
        ELSE <<SubSeq(s, i, j - 1)>> \o SplitFrom(s, sep, j + Len(sep))

\* s.split(sep), sep non-empty: left-to-right, non-overlapping
Split(s, sep) == SplitFrom(s, sep, 1)

\* s.strip()
Strip(s) ==
    LET keep == {i \in 1..Len(s) : s[i] \notin Whitespace}
    IN  IF keep = {} THEN <<>> ELSE SubSeq(s, MinOf(keep), MaxOf(keep))

RECURSIVE Join(_, _)
\* sep.join(parts)
Join(parts, sep) ==
    IF parts = <<>> THEN <<>>
    ELSE IF Len(parts) = 1 THEN parts[1]
    ELSE parts[1] \o sep \o Join(Tail(parts), sep)

\* s.replace(old, new), old non-empty
Replace(s, old, new) == Join(Split(s, old), new)

\* s[:n]
Prefix(s, n) == SubSeq(s, 1, IF n < Len(s) THEN n ELSE Len(s))

RECURSIVE WsSplitFrom(_, _)
WsSplitFrom(s, i) ==
    LET starts == {j \in i..Len(s) : s[j] \notin Whitespace}
    IN  IF starts = {} THEN <<>>
        ELSE LET b == MinOf(starts)
                 stops == {j \in b..Len(s) : s[j] \in Whitespace}
                 e == IF stops = {} THEN Len(s) + 1 ELSE MinOf(stops)
             IN  <<SubSeq(s, b, e - 1)>> \o WsSplitFrom(s, e)

\* s.split(): the maximal runs of non-whitespace
WsSplit(s) == WsSplitFrom(s, 1)

\* [f(x) for x in xs if x]-style comprehension helpers
RECURSIVE StripDropEmpty(_)
\* [t.strip() for t in parts if t.strip()]
StripDropEmpty(parts) ==
    IF parts = <<>> THEN <<>>
    ELSE LET t == Strip(parts[1])
         IN  (IF t = <<>> THEN <<>> ELSE <<t>>) \o StripDropEmpty(Tail(parts))

RECURSIVE KeepHashTokens(_)
\* [h.strip() for h in toks if h.strip().startswith('#')]
KeepHashTokens(toks) ==
    IF toks = <<>> THEN <<>>
    ELSE LET h == Strip(toks[1])
         IN  (IF StartsWith(h, <<"#">>) THEN <<h>> ELSE <<>>)
             \o KeepHashTokens(Tail(toks))

(***************************************************************************)
(* The marker and default literals of the two parsers.                     *)
(***************************************************************************)
CATEGORY_M == <<"C","A","T","E","G","O","R","Y",":">>
MASTER_STORYLINE_M ==
    <<"M","A","S","T","E","R","_","S","T","O","R","Y","L","I","N","E",":">>
YOUTUBE_SCRIPT_M ==
    <<"Y","O","U","T","U","B","E","_","S","C","R","I","P","T",":">>
INSTAGRAM_SCRIPT_M ==
    <<"I","N","S","T","A","G","R","A","M","_","S","C","R","I","P","T",":">>
TWITTER_THREAD_M ==
    <<"T","W","I","T","T","E","R","_","T","H","R","E","A","D",":">>
CAPTION_M == <<"C","A","P","T","I","O","N",":">>
CTA_M == <<"C","T","A",":">>
HASHTAGS_M == <<"H","A","S","H","T","A","G","S",":">>

ParaSep == <<NL, NL>>
LineSep == <<NL>>
Dashes == <<"-", "-", "-">>

\* Python None for current_section
None == "None"

Str(s) == [kind |-> "str", val |-> s]
List(l) == [kind |-> "list", val |-> l]

\* Python truthiness of a str or list value
Truthy(v) == v.val # <<>>


NEW_TOOL_INTRO == <<"n","e","w","_","t","o","o","l","_","i","n","t","r","o">>
TOOL_DETAILED_TUTORIAL ==
    <<"t","o","o","l","_","d","e","t","a","i","l","e","d","_",
      "t","u","t","o","r","i","a","l">>
TRENDING_AI_MODEL ==
    <<"t","r","e","n","d","i","n","g","_","a","i","_","m","o","d","e","l">>
AI_TRENDING_NEWS ==
    <<"a","i","_","t","r","e","n","d","i","n","g","_","n","e","w","s">>
GITHUB_OPEN_SOURCE_REPO ==
    <<"g","i","t","h","u","b","_","o","p","e","n","_",
      "s","o","u","r","c","e","_","r","e","p","o">>
INSTAGRAM_ENGAGEMENT_CONTENT ==
    <<"i","n","s","t","a","g","r","a","m","_","e","n","g","a","g","e","m","e","n","t","_",
      "c","o","n","t","e","n","t">>

\* the keys of MultiCategoryGenerator.CATEGORIES, in dict (insertion) order
CATEGORIES ==
    << NEW_TOOL_INTRO, TOOL_DETAILED_TUTORIAL, TRENDING_AI_MODEL,
       AI_TRENDING_NEWS, GITHUB_OPEN_SOURCE_REPO, INSTAGRAM_ENGAGEMENT_CONTENT >>

FollowForMore == <<"F","o","l","l","o","w"," ","f","o","r"," ","m","o","r","e","!">>
ShareThisPost == <<"S","h","a","r","e"," ","t","h","i","s"," ","p","o","s","t","!">>
CommentYourThoughts ==
    <<"C","o","m","m","e","n","t"," ","y","o","u","r"," ",
      "t","h","o","u","g","h","t","s","!">>
ShareThis == <<"S","h","a","r","e"," ","t","h","i","s","!">>
CommentBelow == <<"C","o","m","m","e","n","t"," ","b","e","l","o","w","!">>
TagAI == <<"#","A","I">>
TagTech == <<"#","T","e","c","h">>
TagInnovation == <<"#","I","n","n","o","v","a","t","i","o","n">>
TagViral == <<"#","V","i","r","a","l">>
TagTrending == <<"#","T","r","e","n","d","i","n","g">>

AIDefaultCta == <<FollowForMore, ShareThisPost, CommentYourThoughts>>
AIDefaultHashtags == <<TagAI, TagTech, TagInnovation>>
ExceptCta == <<FollowForMore, ShareThis, CommentBelow>>
MultiDefaultCta == <<FollowForMore, ShareThis, CommentBelow>>
MultiDefaultHashtags == <<TagAI, TagTech, TagInnovation, TagViral, TagTrending>>

\* the slice lengths of the defaults
AIStorylineLen == 500
AIThreadLen == 280
ExceptYoutubeLen == 500
ExceptInstagramLen == 300
ExceptThreadLen == 280
ExceptCaptionLen == 200
MultiStorylineLen == 300
MultiThreadLen == 280

Fields ==
    {"topic", "category", "master_storyline", "youtube_script",
     "instagram_script", "twitter_thread", "caption", "cta", "hashtags"}
TextFields == {"master_storyline", "youtube_script", "instagram_script", "caption"}
SeqFields == {"twitter_thread", "cta", "hashtags"}

(***************************************************************************)
(* AIContentGenerator._parse_response                                      *)
(***************************************************************************)
AIInitResult(t) ==
    [ topic |-> t,
      category |-> NEW_TOOL_INTRO,
      master_storyline |-> Str(<<>>),
      youtube_script |-> Str(<<>>),
      instagram_script |-> Str(<<>>),
      twitter_thread |-> List(<<>>),
      caption |-> Str(<<>>),
      cta |-> List(<<>>),
      hashtags |-> List(<<>>) ]

\* [t.strip() for t in sep.join(content).split('---') if t.strip()]
SplitSegments(content, sep) ==
    StripDropEmpty(Split(Join(content, sep), Dashes))

\* if current_section and current_content:
\*     result[current_section] = '\n\n'.join(current_content).strip()
AIFlushText(st) ==
    IF st.current_section # None /\ st.current_content # <<>>
    THEN [st.result EXCEPT ![st.current_section] =
              Str(Strip(Join(st.current_content, ParaSep)))]
    ELSE st.result

\* if current_section == key and current_content:
\*     result[key] = [t.strip() for t in ... .split('---') if t.strip()]
AIFlushList(st, key) ==
    IF st.current_section = key /\ st.current_content # <<>>
    THEN [st.result EXCEPT ![key] =
              List(SplitSegments(st.current_content, ParaSep))]
    ELSE st.result

\* the content a marker paragraph opens its section with
AIOpening(section, marker) == <<Strip(Replace(section, marker, <<>>))>>

\* one iteration of "for section in sections"
AIStep(st, raw) ==
    LET section == Strip(raw) IN
    IF StartsWith(section, CATEGORY_M) THEN
        [st EXCEPT !.result.category = Strip(Replace(section, CATEGORY_M, <<>>))]
    ELSE IF StartsWith(section, MASTER_STORYLINE_M) THEN
        [ result |-> st.result,
          current_section |-> "master_storyline",
          current_content |-> AIOpening(section, MASTER_STORYLINE_M) ]
    ELSE IF StartsWith(section, YOUTUBE_SCRIPT_M) THEN
        [ result |-> AIFlushText(st),
          current_section |-> "youtube_script",
          current_content |-> AIOpening(section, YOUTUBE_SCRIPT_M) ]
    ELSE IF StartsWith(section, INSTAGRAM_SCRIPT_M) THEN
        [ result |-> AIFlushText(st),
          current_section |-> "instagram_script",
          current_content |-> AIOpening(section, INSTAGRAM_SCRIPT_M) ]
    ELSE IF StartsWith(section, TWITTER_THREAD_M) THEN
        [ result |-> AIFlushText(st),
          current_section |-> "twitter_thread",
          current_content |-> <<>> ]
    ELSE IF StartsWith(section, CAPTION_M) THEN
        [ result |-> AIFlushList(st, "twitter_thread"),
          current_section |-> "caption",
          current_content |-> AIOpening(section, CAPTION_M) ]
    ELSE IF StartsWith(section, CTA_M) THEN
        [ result |-> AIFlushText(st),
          current_section |-> "cta",
          current_content |-> <<>> ]
    ELSE IF StartsWith(section, HASHTAGS_M) THEN
        [ result |-> [AIFlushList(st, "cta") EXCEPT !.hashtags =
              List(KeepHashTokens(WsSplit(Strip(Replace(section, HASHTAGS_M, <<>>)))))],
          current_section |-> None,
          current_content |-> st.current_content ]
    ELSE IF st.current_section # None THEN
        [st EXCEPT !.current_content = Append(@, section)]
    ELSE st

RECURSIVE AILoop(_, _, _)
AILoop(sections, i, st) ==
    IF i > Len(sections) THEN st
    ELSE AILoop(sections, i + 1, AIStep(st, sections[i]))

\* "Handle last section"
AILastSection(st) ==
    IF st.current_section # None /\ st.current_content # <<>>
    THEN IF st.current_section \in {"twitter_thread", "cta"}
         THEN [st.result EXCEPT ![st.current_section] =
                   List(SplitSegments(st.current_content, ParaSep))]
         ELSE [st.result EXCEPT ![st.current_section] =
                   Str(Strip(Join(st.current_content, ParaSep)))]
    ELSE st.result

\* the defaults without those of cta and hashtags
AIDefaultsStorylineThreadOnly(r, resp) ==
    LET r1 == IF ~Truthy(r.master_storyline)
              THEN [r EXCEPT !.master_storyline = Str(Prefix(resp, AIStorylineLen))]
              ELSE r
    IN  IF ~Truthy(r1.twitter_thread)
        THEN [r1 EXCEPT !.twitter_thread = List(<<Prefix(resp, AIThreadLen)>>)]
        ELSE r1

\* "Ensure we have at least some content"
AIDefaults(r, resp) ==
    LET r1 == IF ~Truthy(r.master_storyline)
              THEN [r EXCEPT !.master_storyline = Str(Prefix(resp, AIStorylineLen))]
              ELSE r
        r2 == IF ~Truthy(r1.twitter_thread)
              THEN [r1 EXCEPT !.twitter_thread = List(<<Prefix(resp, AIThreadLen)>>)]
              ELSE r1
        r3 == IF ~Truthy(r2.cta)
              THEN [r2 EXCEPT !.cta = List(AIDefaultCta)]
              ELSE r2
    IN  IF ~Truthy(r3.hashtags)
        THEN [r3 EXCEPT !.hashtags = List(AIDefaultHashtags)]
        ELSE r3

\* the body of the try block
AITryBody(resp, t) ==
    LET st0 == [ result |-> AIInitResult(t),
                 current_section |-> None,
                 current_content |-> <<>> ]
    IN  AIDefaults(AILastSection(AILoop(Split(resp, ParaSep), 1, st0)), resp)

\* Whether a statement of the try block raises.  On a str every statement is
\* total: split, strip, startswith, replace, join and slicing never raise,
\* and every result[...] is a store, never a lookup.
AITryRaises(resp) == FALSE

\* the except branch
AIExcept(resp, t) ==
    [ AIInitResult(t) EXCEPT
        !.master_storyline = Str(resp),
        !.youtube_script = Str(Prefix(resp, ExceptYoutubeLen)),
        !.instagram_script = Str(Prefix(resp, ExceptInstagramLen)),
        !.twitter_thread = List(<<Prefix(resp, ExceptThreadLen)>>),
        !.caption = Str(Prefix(resp, ExceptCaptionLen)),
        !.cta = List(ExceptCta),
        !.hashtags = List(AIDefaultHashtags) ]

AI_parse_response(resp, t) ==
    IF AITryRaises(resp) THEN AIExcept(resp, t) ELSE AITryBody(resp, t)

(***************************************************************************)
(* MultiCategoryGenerator._parse_response                                  *)
(***************************************************************************)
MultiInitResult(t, category) ==
    [ topic |-> t,
      category |-> category,
      master_storyline |-> Str(<<>>),
      youtube_script |-> Str(<<>>),
      instagram_script |-> Str(<<>>),
      twitter_thread |-> List(<<>>),
      caption |-> Str(<<>>),
      cta |-> List(MultiDefaultCta),
      hashtags |-> List(MultiDefaultHashtags) ]

\* if current_section and content:
\*     result[current_section] = '\n'.join(content).strip()
MultiFlushText(st) ==
    IF st.current_section # None /\ st.content # <<>>
    THEN [st.result EXCEPT ![st.current_section] =
              Str(Strip(Join(st.content, LineSep)))]
    ELSE st.result

MultiFlushThread(st) ==
    IF st.current_section = "twitter_thread" /\ st.content # <<>>
    THEN [st.result EXCEPT !.twitter_thread =
              List(SplitSegments(st.content, LineSep))]
    ELSE st.result

\* one iteration of "for line in lines"
MultiStep(st, line) ==
    IF Contains(line, MASTER_STORYLINE_M) THEN
        [ result |-> st.result,
          current_section |-> "master_storyline", content |-> <<>> ]
    ELSE IF Contains(line, YOUTUBE_SCRIPT_M) THEN
        [ result |-> MultiFlushText(st),
          current_section |-> "youtube_script", content |-> <<>> ]
    ELSE IF Contains(line, INSTAGRAM_SCRIPT_M) THEN
        [ result |-> MultiFlushText(st),
          current_section |-> "instagram_script", content |-> <<>> ]
    ELSE IF Contains(line, TWITTER_THREAD_M) THEN
        [ result |-> MultiFlushText(st),
          current_section |-> "twitter_thread", content |-> <<>> ]
    ELSE IF Contains(line, CAPTION_M) THEN
        [ result |-> MultiFlushThread(st),
          current_section |-> "caption", content |-> <<>> ]
    ELSE IF st.current_section # None THEN
        [st EXCEPT !.content = Append(@, line)]
    ELSE st

RECURSIVE MultiLoop(_, _, _)
MultiLoop(lines, i, st) ==
    IF i > Len(lines) THEN st
    ELSE MultiLoop(lines, i + 1, MultiStep(st, lines[i]))

\* "Handle last section"
MultiLastSection(st) ==
    IF st.current_section # None /\ st.content # <<>>
    THEN IF st.current_section = "twitter_thread"
         THEN [st.result EXCEPT !.twitter_thread =
                   List(SplitSegments(st.content, LineSep))]
         ELSE [st.result EXCEPT ![st.current_section] =
                   Str(Strip(Join(st.content, LineSep)))]
    ELSE st.result

\* "Ensure we have something"
MultiDefaults(r, resp) ==
    LET r1 == IF ~Truthy(r.master_storyline)
              THEN [r EXCEPT !.master_storyline = Str(Prefix(resp, MultiStorylineLen))]
              ELSE r
    IN  IF ~Truthy(r1.twitter_thread)
        THEN [r1 EXCEPT !.twitter_thread = List(<<Prefix(resp, MultiThreadLen)>>)]
        ELSE r1

\* a fan-out parser that lets a CATEGORY: line of the text set the category
MultiParseCategoryFromText(resp, t, requested) ==
    [ MultiDefaults(
          MultiLastSection(
              MultiLoop(Split(resp, LineSep), 1,
                        [ result |-> MultiInitResult(t, requested),
                          current_section |-> None,
                          content |-> <<>> ])),
          resp)
      EXCEPT !.category =
          IF Contains(resp, CATEGORY_M)
          THEN Strip(Split(Split(resp, CATEGORY_M)[2], LineSep)[1])
          ELSE @ ]

Multi_parse_response(resp, t, category) ==
    LET st0 == [ result |-> MultiInitResult(t, category),
                 current_section |-> None,
                 content |-> <<>> ]
    IN  MultiDefaults(MultiLastSection(MultiLoop(Split(resp, LineSep), 1, st0)), resp)

\* a parser that reads lines[1] without a length check
MultiRaisesUnguarded(resp) == Len(Split(resp, LineSep)) < 2

\* Whether a statement of the function raises: none does on a str (there is
\* no try block; split, 'in', join, strip and slicing are total).
MultiRaises(resp) == FALSE

(***************************************************************************)
(* The completion texts the parsers are run on.                            *)
(***************************************************************************)
MaxPieces == 3

\* the sections in the documented order, and the marker of each
Sections ==
    << "category", "master_storyline", "youtube_script", "instagram_script",
       "twitter_thread", "caption", "cta", "hashtags" >>
SectionNames == { Sections[m] : m \in 1..Len(Sections) }
MarkerOf ==
    [ category |-> CATEGORY_M,
      master_storyline |-> MASTER_STORYLINE_M,
      youtube_script |-> YOUTUBE_SCRIPT_M,
      instagram_script |-> INSTAGRAM_SCRIPT_M,
      twitter_thread |-> TWITTER_THREAD_M,
      caption |-> CAPTION_M,
      cta |-> CTA_M,
      hashtags |-> HASHTAGS_M ]

HasMarker(s) == \E f \in SectionNames : Contains(s, MarkerOf[f])

\* free texts: any concatenation of at most MaxPieces pieces, markers in any
\* order and number
Pieces ==
    { MarkerOf[f] : f \in SectionNames }
    \cup { LineSep, ParaSep, Dashes, <<"a">>, <<"#", "T">> }

RECURSIVE Concat(_)
Concat(ps) == IF ps = <<>> THEN <<>> ELSE ps[1] \o Concat(Tail(ps))

FreeTexts ==
    { Concat(ps) : ps \in UNION { [1..n -> Pieces] : n \in 0..MaxPieces } }

\* documents in the layout the prompt asks for: the markers in the documented
\* order, each present or not, sections separated by a blank line; a
\* section's content starts on the line after its marker ("line", as in
\* OUTPUT FORMAT) or after a blank line ("blank")
Layouts == {"line", "blank"}

StoryText == <<"H","e","l","l","o"," ","w","o","r","l","d">>
YoutubeText == <<"[","0",":","0","0","]"," ","H","o","o","k">>
InstagramText == <<"H","O","O","K",NL,"P","o","i","n","t">>
CaptionText == <<"H","o","o","k",NL,NL,"K","e","y">>
ThreadSegments == << <<"A">>, <<"B">>, <<"C">> >>
\* A / --- / blank / B / --- / C
ThreadText == <<"A",NL,"-","-","-",NL,NL,"B",NL,"-","-","-",NL,"C">>
CtaSegments == << <<"X">>, <<"Y">> >>
CtaText == <<"X",NL,"-","-","-",NL,"Y">>
HashtagTokens == << TagAI, TagTech >>
HashtagText == TagAI \o <<SP>> \o TagTech

SectionBody ==
    [ category |-> TRENDING_AI_MODEL,
      master_storyline |-> StoryText,
      youtube_script |-> YoutubeText,
      instagram_script |-> InstagramText,
      twitter_thread |-> ThreadText,
      caption |-> CaptionText,
      cta |-> CtaText,
      hashtags |-> HashtagText ]

\* the text of section f: "CATEGORY: id" on one line, the others with their
\* content below the marker line
SectionText(f, layout) ==
    IF f = "category" THEN MarkerOf[f] \o <<SP>> \o SectionBody[f]
    ELSE MarkerOf[f] \o (IF layout = "line" THEN LineSep ELSE ParaSep)
         \o SectionBody[f]

RECURSIVE SectionsOf(_, _, _)
SectionsOf(present, layout, m) ==
    IF m > Len(Sections) THEN <<>>
    ELSE (IF Sections[m] \in present
          THEN <<SectionText(Sections[m], layout)>> ELSE <<>>)
         \o SectionsOf(present, layout, m + 1)

DocText(present, layout) == Join(SectionsOf(present, layout, 1), ParaSep)

\* marker-free texts longer than the default slices
Filler(n) == [i \in 1..n |-> "x"]
LongLengths == {MultiStorylineLen + 1, AIStorylineLen + 1}

\* every pair of sections: marker f, a content line, marker g, a content
\* line, each on a line ("\n") or a paragraph ("\n\n") of its own
Separators == { LineSep, ParaSep }
PairText(f, g, sep) ==
    MarkerOf[f] \o sep \o <<"b">> \o sep \o MarkerOf[g] \o sep \o <<"c">>

\* a content line that holds a marker keyword in its middle
MidLine(g) == <<"s","e","e",SP>> \o MarkerOf[g] \o <<SP,"b","e","l","o","w">>
MidText(f, g, sep) == MarkerOf[f] \o sep \o MidLine(g) \o sep \o <<"c">>

Topics == { <<"G","P","T">>, <<"A","I">> }
HintCategories == { TOOL_DETAILED_TUTORIAL, AI_TRENDING_NEWS }

NoResult == [kind |-> "none"]
NoTopic == <<>>
GAIdle == [pc |-> "idle"]
ApiIdle == [pc |-> "idle"]
DbIdle == [pc |-> "idle"]
TwIdle == [pc |-> "idle"]

Init ==
    /\ \/ /\ response \in FreeTexts
          /\ input = [family |-> "free"]
       \/ \E present \in SUBSET SectionNames, layout \in Layouts :
             /\ response = DocText(present, layout)
             /\ input = [family |-> "doc", present |-> present, layout |-> layout]
       \/ \E n \in LongLengths :
             /\ response = Filler(n)
             /\ input = [family |-> "long"]
       \/ \E f \in SectionNames, g \in SectionNames, sep \in Separators :
             /\ response = PairText(f, g, sep)
             /\ input = [family |-> "pair", current |-> f, next |-> g, sep |-> sep]
       \/ \E f \in SectionNames, g \in SectionNames, sep \in Separators :
             /\ response = MidText(f, g, sep)
             /\ input = [family |-> "mid", current |-> f, keyword |-> g, sep |-> sep]
    /\ pc = "start"
    /\ parser = "none"
    /\ topic = NoTopic
    /\ result = NoResult
    /\ raised = FALSE
    /\ ga = GAIdle
    /\ api = ApiIdle
    /\ db = DbIdle
    /\ tw = TwIdle

\* AIContentGenerator._parse_response(response, t)
AIParse ==
    /\ pc = "start"
    /\ \E t \in Topics :
          /\ topic' = t
          /\ result' = AI_parse_response(response, t)
    /\ raised' = FALSE
    /\ parser' = "ai"
    /\ pc' = "done"
    /\ UNCHANGED <<response, input, ga, api, db, tw>>

\* MultiCategoryGenerator._parse_response(response, t, category)
MultiParse ==
    /\ pc = "start"
    /\ \E t \in Topics, category \in HintCategories :
          /\ topic' = t
          /\ raised' = MultiRaises(response)
          /\ result' = IF MultiRaises(response) THEN NoResult
                       ELSE Multi_parse_response(response, t, category)
    /\ parser' = "multi"
    /\ pc' = "done"
    /\ UNCHANGED <<response, input, ga, api, db, tw>>

Next == AIParse \/ MultiParse

Spec == Init /\ [][Next]_vars

(***************************************************************************)
(* MultiCategoryGenerator.generate_all and OpenRouterAI.generate.          *)
(* Texts that are only concatenated and compared (search results, the      *)
(* context, the prompt) are sequences of chunks; a prompt is the triple    *)
(* its f-string is built from.                                             *)
(***************************************************************************)
NoneValue == [kind |-> "none"]

\* OpenRouterAI.generate: the request raises (timeout, connection, bad
\* JSON), answers with a status other than 200, or answers 200 with content
GenerateOutcomes == {"exception", "http_error", "ok"}
OpenRouterGenerate(outcome, content) ==
    IF outcome = "ok" THEN Str(content) ELSE NoneValue

\* the completion texts an answer can carry: empty, marker-free, or a
\* document in the layout of the fan-out prompt (which names a CATEGORY)
FanOutSections == SectionNames \ {"cta", "hashtags"}
CompletionTexts == { <<>>, <<"a">>, DocText(FanOutSections, "line") }

\* search_and_format(topic): "" when the search failed or found nothing
SearchResults ==
    { <<>>,
      <<"\nSEARCHED INFORMATION:\n", "results",
        "\n\nUse this information to make the content more accurate and relevant.\n">> }

UserContexts == { <<>>, <<"script">> }
FanOutTopics == { <<"G","P","T">> }

\* lines 50-60: the context shared by all prompts
FullContext(search_context, context) ==
    LET a == IF search_context # <<>>
             THEN <<"REAL-TIME SEARCH FACTS:\n">> \o search_context \o <<"\n\n">>
             ELSE <<>>
        b == IF context # <<>>
             THEN a \o <<"USER UPLOADED SOURCE:\n">> \o context
             ELSE a
    IN  IF b = <<>>
        THEN (IF search_context # <<>> THEN search_context
              ELSE <<"No specific context provided.">>)
        ELSE b

\* lines 80-135: the categories the flows dict of _build_prompt has a key for
FlowKeys ==
    { NEW_TOOL_INTRO, TOOL_DETAILED_TUTORIAL, TRENDING_AI_MODEL,
      AI_TRENDING_NEWS, GITHUB_OPEN_SOURCE_REPO, INSTAGRAM_ENGAGEMENT_CONTENT }

\* a flows dict that lost the key of the last category
BuildPromptRaisesMissingFlow(category) ==
    category \notin (FlowKeys \ {INSTAGRAM_ENGAGEMENT_CONTENT})

\* line 150: flows[category] raises KeyError for a category without a flow
BuildPromptRaises(category) == category \notin FlowKeys

\* a prompt that appends the category to the context it quotes
BuildPromptOwnContext(t, category, context) ==
    [topic |-> t, category |-> category, context |-> context \o <<category>>]

\* _build_prompt(topic, category, context)
BuildPrompt(t, category, context) ==
    [topic |-> t, category |-> category, context |-> context]

\* a loop that asks again for a category whose request failed
NextIndexRetry(i, r) == IF r.kind = "none" THEN i ELSE i + 1

\* line 65: the for loop moves on to the next category whatever the answer
NextIndex(i, r) == i + 1

\* a response distinct from None
HasResponseNotNone(resp) == resp.kind # "none"

\* "if response:"
HasResponse(resp) == resp.kind # "none" /\ resp.val # <<>>

GAInit ==
    /\ \E avail \in BOOLEAN, t \in FanOutTopics, c \in UserContexts :
          ga = [ pc |-> "call",
                 ai_available |-> avail,
                 topic |-> t,
                 context |-> c,
                 search_calls |-> 0,
                 full_context |-> <<>>,
                 idx |-> 1,
                 requests |-> <<>>,
                 responses |-> <<>>,
                 results |-> <<>> ]
    /\ response = <<>>
    /\ input = [family |-> "none"]
    /\ pc = "idle"
    /\ parser = "none"
    /\ topic = NoTopic
    /\ result = NoResult
    /\ raised = FALSE
    /\ api = ApiIdle
    /\ db = DbIdle
    /\ tw = TwIdle

\* lines 42-43: the service is not available
GenerateAllUnavailable ==
    /\ ga.pc = "call"
    /\ ~ga.ai_available
    /\ ga' = [ga EXCEPT !.pc = "raised"]
    /\ UNCHANGED <<response, input, pc, parser, topic, result, raised, api, db, tw>>

\* lines 45-62: search once, resolve the context, start with no results
GenerateAllResolveContext ==
    /\ ga.pc = "call"
    /\ ga.ai_available
    /\ \E search_context \in SearchResults :
          ga' = [ga EXCEPT !.pc = "loop",
                           !.search_calls = @ + 1,
                           !.full_context = FullContext(search_context, ga.context),
                           !.idx = 1,
                           !.results = <<>>]
    /\ UNCHANGED <<response, input, pc, parser, topic, result, raised, api, db, tw>>

\* lines 65-73: one iteration of the loop over CATEGORIES; a KeyError of
\* _build_prompt is caught nowhere and ends the call
GenerateAllCategory ==
    /\ ga.pc = "loop"
    /\ ga.idx <= Len(CATEGORIES)
    /\ \E outcome \in GenerateOutcomes, content \in CompletionTexts :
          LET category_id == CATEGORIES[ga.idx]
              prompt == BuildPrompt(ga.topic, category_id, ga.full_context)
              resp == OpenRouterGenerate(outcome, content)
          IN  IF BuildPromptRaises(category_id)
              THEN ga' = [ga EXCEPT !.pc = "raised"]
              ELSE ga' = [ga EXCEPT
                       !.requests = Append(@, prompt),
                       !.responses = Append(@, resp),
                       !.results =
                           IF HasResponse(resp)
                           THEN Append(@, Multi_parse_response(resp.val, ga.topic,
                                                               category_id))
                           ELSE @,
                       !.idx = NextIndex(@, resp)]
    /\ UNCHANGED <<response, input, pc, parser, topic, result, raised, api, db, tw>>

\* line 75: return results
GenerateAllReturn ==
    /\ ga.pc = "loop"
    /\ ga.idx > Len(CATEGORIES)
    /\ ga' = [ga EXCEPT !.pc = "returned"]
    /\ UNCHANGED <<response, input, pc, parser, topic, result, raised, api, db, tw>>

GANext ==
    \/ GenerateAllUnavailable
    \/ GenerateAllResolveContext
    \/ GenerateAllCategory
    \/ GenerateAllReturn

SpecGenerateAll == GAInit /\ [][GANext]_vars

(***************************************************************************)
(* Properties of the parsers.                                              *)
(***************************************************************************)
Done == pc = "done"

\* equality of two typed field values
Same(a, b) == a.kind = b.kind /\ a.val = b.val

C2_SequencesNonEmpty ==
    Done => \A f \in SeqFields : Len(result[f].val) >= 1

\* the empty string went through the single-category parser
C2_Witness ==
    Done /\ parser = "ai" /\ response = <<>> /\ Len(result.hashtags.val) >= 1

\* C3: for every input text no field of the returned record is empty.
C3_NoFieldEmpty ==
    Done => /\ result.category # <<>>
            /\ \A f \in TextFields \cup SeqFields : result[f].val # <<>>

\* C4: for every raw text without any marker, of any length, master_storyline
\* is the full raw text and twitter_thread, cta and hashtags are non-empty.
C4_MarkerFreeKeepsFullText ==
    (Done /\ ~HasMarker(response)) =>
        /\ result.master_storyline.val = response
        /\ \A f \in SeqFields : result[f].val # <<>>

\* what each section of a document delimits
Delimited ==
    [ category |-> TRENDING_AI_MODEL,
      master_storyline |-> Str(StoryText),
      youtube_script |-> Str(YoutubeText),
      instagram_script |-> Str(InstagramText),
      twitter_thread |-> List(ThreadSegments),
      caption |-> Str(CaptionText),
      cta |-> List(CtaSegments),
      hashtags |-> List(HashtagTokens) ]

Recovered(f) ==
    IF f = "category" THEN result.category = Delimited.category
    ELSE Same(result[f], Delimited[f])

\* C5: for a text with all eight markers in the documented order, the
\* single-category parser returns for each field exactly the content its
\* section delimits, in the line layout of the prompt and in the blank-line
\* layout.
C5_WellFormedRoundTrip ==
    (Done /\ parser = "ai" /\ input.family = "doc"
          /\ input.present = SectionNames) =>
        \A f \in SectionNames : Recovered(f)

\* C6: for every raw text and topic the record has topic equal to the topic
\* argument and a non-empty category, also after a bare CATEGORY: marker.
C6_TopicKeptCategoryNonEmpty ==
    Done => (result.topic = topic /\ result.category # <<>>)

\* C7: for a text holding CATEGORY, MASTER_STORYLINE with content and
\* HASHTAGS, without TWITTER_THREAD and CTA, in the documented order, the
\* single-category parser returns the parsed category, exactly the storyline
\* section's content, the '#' tokens of the hashtag section, and thread and
\* cta from the defaults.
C7_SubsetKeepsSections ==
    (Done /\ parser = "ai" /\ input.family = "doc" /\ input.layout = "line"
          /\ {"category", "master_storyline", "hashtags"} \subseteq input.present
          /\ input.present \cap {"twitter_thread", "cta"} = {}) =>
        /\ Recovered("category")
        /\ Recovered("master_storyline")
        /\ Recovered("hashtags")
        /\ Same(result.twitter_thread, List(<<Prefix(response, AIThreadLen)>>))
        /\ Same(result.cta, List(AIDefaultCta))

\* C8: for every TWITTER_THREAD or CTA section the parsed field is the
\* sequence of the section's '---'-separated segments, trimmed, blank ones
\* dropped, in order: A / --- / blank / B / --- / C gives [A, B, C].
C8_SegmentsSplit ==
    (Done /\ input.family = "doc") =>
        /\ "twitter_thread" \in input.present => Recovered("twitter_thread")
        /\ "cta" \in input.present => Recovered("cta")

(***************************************************************************)
(* Properties of generate_all.                                             *)
(***************************************************************************)
\* the position of a category identifier in CATEGORIES, 0 when it is none
CategoryIndex(c) ==
    LET at == { i \in 1..Len(CATEGORIES) : CATEGORIES[i] = c }
    IN  IF at = {} THEN 0 ELSE MinOf(at)

ResultCategories == [i \in 1..Len(ga.results) |-> ga.results[i].category]

\* the categories whose request returned non-empty text, in request order
RECURSIVE AnsweredFrom(_)
AnsweredFrom(i) ==
    IF i > Len(ga.responses) THEN <<>>
    ELSE (IF ga.responses[i].kind = "str" /\ ga.responses[i].val # <<>>
          THEN <<ga.requests[i].category>> ELSE <<>>)
         \o AnsweredFrom(i + 1)

\* C9: generate_all returns between 0 and 6 records whose categories, in
\* sequence order, are a subsequence of CATEGORIES without repetition.
C9_ResultsFollowEnumeration ==
    ga.pc = "returned" =>
        /\ Len(ga.results) \in 0..Len(CATEGORIES)
        /\ \A i \in 1..Len(ga.results) : CategoryIndex(ResultCategories[i]) > 0
        /\ \A i, j \in 1..Len(ga.results) :
              i < j => CategoryIndex(ResultCategories[i])
                         < CategoryIndex(ResultCategories[j])

\* a call returned some but not all categories, from texts naming a category
C9_Witness ==
    /\ ga.pc = "returned"
    /\ Len(ga.results) > 1
    /\ Len(ga.results) < Len(CATEGORIES)
    /\ \E i \in 1..Len(ga.responses) :
          ga.responses[i].kind = "str" /\ Contains(ga.responses[i].val, CATEGORY_M)

RequestCategories == [i \in 1..Len(ga.requests) |-> ga.requests[i].category]

\* C11: one generate_all call with the service available issues exactly one
\* completion request per category, in the order of the enumeration and one
\* at a time (each is answered before the next is issued); a category whose
\* request failed is not requested again. At return that is six requests.
C11_OneRequestPerCategoryInOrder ==
    /\ ga.pc \in {"loop", "returned"} =>
          /\ Len(ga.requests) <= Len(CATEGORIES)
          /\ RequestCategories = SubSeq(CATEGORIES, 1, Len(ga.requests))
          /\ Len(ga.responses) = Len(ga.requests)
          /\ ga.idx = Len(ga.requests) + 1
    /\ ga.pc = "returned" => Len(ga.requests) = Len(CATEGORIES)

\* a call returned after a failed request was followed by the request of
\* the next category
C11_Witness ==
    /\ ga.pc = "returned"
    /\ \E i \in 1..(Len(ga.responses) - 1) :
          /\ ga.responses[i].kind = "none"
          /\ ga.requests[i + 1].category = CATEGORIES[i + 1]
          /\ ga.requests[i + 1].category # ga.requests[i].category

\* C12: generate_all raises exactly when ai_available is false at the start
\* of the call, and then before any search or completion request; with the
\* service available no topic, context, search outcome or completion outcome
\* makes it raise.
C12_RaisesIffUnavailable ==
    /\ ga.pc = "raised" =>
          /\ ~ga.ai_available
          /\ ga.search_calls = 0
          /\ ga.requests = <<>>
    /\ ~ga.ai_available => ga.pc \in {"call", "raised"}

\* a call with an uploaded script raised without the service, before any
\* search or request
C12_Witness ==
    /\ ga.pc = "raised"
    /\ ~ga.ai_available
    /\ ga.context # <<>>
    /\ ga.search_calls = 0

\* C13: within one generate_all call the search is invoked exactly once,
\* before the first completion request, and the context it resolves is the
\* context of all six prompts.
C13_OneSearchSharedContext ==
    /\ ga.requests # <<>> => ga.search_calls = 1
    /\ ga.pc \in {"loop", "returned"} => ga.search_calls = 1
    /\ \A i \in 1..Len(ga.requests) : ga.requests[i].context = ga.full_context
    /\ \A i, j \in 1..Len(ga.requests) :
          ga.requests[i].context = ga.requests[j].context

\* a returned call whose search found results and whose six prompts quote
\* them together with the uploaded script
C13_Witness ==
    /\ ga.pc = "returned"
    /\ ga.search_calls = 1
    /\ ga.context # <<>>
    /\ Len(ga.requests) = Len(CATEGORIES)
    /\ Len(ga.full_context) > Len(ga.context) + 1
    /\ ga.requests[Len(CATEGORIES)].context = ga.full_context

\* the positions, in request order, of the requests answered with non-empty
\* text: the k-th record of the call comes from the k-th of them
AnsweredSlots ==
    SelectSeq([i \in 1..Len(ga.responses) |-> i],
              LAMBDA i : ga.responses[i].kind = "str" /\ ga.responses[i].val # <<>>)

\* the category a completion text names after its CATEGORY: marker
NamedCategory(text) == Strip(Split(Split(text, CATEGORY_M)[2], LineSep)[1])

\* the k-th record comes from a text naming a category other than the one
\* its request asked for
NamesOtherCategory(k) ==
    /\ Contains(ga.responses[AnsweredSlots[k]].val, CATEGORY_M)
    /\ NamedCategory(ga.responses[AnsweredSlots[k]].val)
           # ga.requests[AnsweredSlots[k]].category

\* C14 (as stated): when the completion text of a slot holds a CATEGORY:
\* marker naming a different category than the one requested, the returned
\* record carries the category parsed from the text.
C14_ParsedCategoryOverrides ==
    ga.pc = "returned" =>
        \A k \in 1..Len(ga.results) :
            NamesOtherCategory(k) =>
                ga.results[k].category
                    = NamedCategory(ga.responses[AnsweredSlots[k]].val)

\* C14 (amended): every record of generate_all carries the category its
\* request asked for, also when the completion text holds a CATEGORY: marker
\* naming a different category; the marker is not read.
C14_RequestedCategoryKept ==
    ga.pc \in {"loop", "returned"} =>
        /\ Len(AnsweredSlots) = Len(ga.results)
        /\ \A k \in 1..Len(ga.results) :
              ga.results[k].category = ga.requests[AnsweredSlots[k]].category

\* the first request, for new_tool_intro, was answered with a text naming
\* trending_ai_model and the call returned its record as new_tool_intro
C14_Witness ==
    /\ ga.pc = "returned"
    /\ Len(ga.results) >= 1
    /\ AnsweredSlots[1] = 1
    /\ NamesOtherCategory(1)
    /\ NamedCategory(ga.responses[1].val) = TRENDING_AI_MODEL
    /\ ga.results[1].category = NEW_TOOL_INTRO

\* C20: whenever generate_all returns, it returns exactly six records, one
\* for each category (the Returns: line of its docstring).
C20_ReturnsSixRecords ==
    ga.pc = "returned" =>
        /\ Len(ga.results) = Len(CATEGORIES)
        /\ ResultCategories = CATEGORIES

CategoryIds == { CATEGORIES[i] : i \in 1..Len(CATEGORIES) }

\* C15: in every record returned by the single-category parser or by
\* generate_all, category is one of the six enumerated identifiers, whatever
\* text follows a CATEGORY: marker in the response.
C15_CategoryEnumerated ==
    Done => result.category \in CategoryIds

(***************************************************************************)
(* ContentGenerator (the template generator).  Its str methods lower,      *)
(* capitalize and split are computed on ASCII letters.  The texts built    *)
(* from the category templates are only stored and returned, so they are   *)
(* sequences of chunks; a context of None and a context of "" are both     *)
(* falsy everywhere they are read and are both the empty sequence.         *)
(***************************************************************************)
Uppers ==
    << "A","B","C","D","E","F","G","H","I","J","K","L","M",
       "N","O","P","Q","R","S","T","U","V","W","X","Y","Z" >>
Lowers ==
    << "a","b","c","d","e","f","g","h","i","j","k","l","m",
       "n","o","p","q","r","s","t","u","v","w","x","y","z" >>

\* one character of str.lower() / str.upper()
LowerChar(c) ==
    IF \E i \in 1..Len(Uppers) : Uppers[i] = c
    THEN Lowers[CHOOSE i \in 1..Len(Uppers) : Uppers[i] = c]
    ELSE c
UpperChar(c) ==
    IF \E i \in 1..Len(Lowers) : Lowers[i] = c
    THEN Uppers[CHOOSE i \in 1..Len(Lowers) : Lowers[i] = c]
    ELSE c

\* s.lower()
Lower(s) == [i \in 1..Len(s) |-> LowerChar(s[i])]

\* s.capitalize(): first character upper-cased, the rest lower-cased
Capitalize(s) ==
    IF s = <<>> THEN s ELSE <<UpperChar(s[1])>> \o Lower(Tail(s))

\* line 65 of _classify_content
NewWords ==
    { <<"n","e","w">>, <<"j","u","s","t",SP,"r","e","l","e","a","s","e","d">>,
      <<"l","a","u","n","c","h","e","d">>,
      <<"i","n","t","r","o","d","u","c","i","n","g">>,
      <<"a","n","n","o","u","n","c","e","m","e","n","t">> }

\* line 66 of _classify_content
ToolWords ==
    { <<"t","o","o","l">>, <<"a","p","p">>,
      <<"p","l","a","t","f","o","r","m">>, <<"s","o","f","t","w","a","r","e">> }

\* line 69 of _classify_content
TutorialWords ==
    { <<"h","o","w",SP,"t","o">>, <<"t","u","t","o","r","i","a","l">>,
      <<"g","u","i","d","e">>,
      <<"s","t","e","p",SP,"b","y",SP,"s","t","e","p">>,
      <<"l","e","a","r","n">> }

\* line 72 of _classify_content
ModelWords ==
    { <<"m","o","d","e","l">>, <<"g","p","t">>, <<"l","l","m">>,
      <<"a","i",SP,"m","o","d","e","l">>,
      <<"n","e","u","r","a","l",SP,"n","e","t","w","o","r","k">> }

\* line 75 of _classify_content
NewsWords ==
    { <<"n","e","w","s">>, <<"b","r","e","a","k","i","n","g">>,
      <<"t","r","e","n","d","i","n","g">>, <<"l","a","t","e","s","t">>,
      <<"u","p","d","a","t","e">> }

\* line 78 of _classify_content
RepoWords ==
    { <<"g","i","t","h","u","b">>,
      <<"o","p","e","n",SP,"s","o","u","r","c","e">>,
      <<"r","e","p","o","s","i","t","o","r","y">>, <<"r","e","p","o">>,
      <<"c","o","d","e">> }

\* line 81 of _classify_content
TipWords ==
    { <<"t","i","p">>, <<"t","r","i","c","k">>, <<"q","u","i","c","k">>,
      <<"s","i","m","p","l","e">>, <<"e","a","s","y">> }

\* any(word in combined for word in words)
AnyWordIn(words, combined) == \E w \in words : Contains(combined, w)

\* _classify_content(topic, context)
ClassifyContent(t, context) ==
    LET combined == Lower(t) \o <<SP>> \o Lower(context)
    IN  IF AnyWordIn(NewWords, combined) /\ AnyWordIn(ToolWords, combined)
        THEN NEW_TOOL_INTRO
        ELSE IF AnyWordIn(TutorialWords, combined) THEN TOOL_DETAILED_TUTORIAL
        ELSE IF AnyWordIn(ModelWords, combined) THEN TRENDING_AI_MODEL
        ELSE IF AnyWordIn(NewsWords, combined) THEN AI_TRENDING_NEWS
        ELSE IF AnyWordIn(RepoWords, combined) THEN GITHUB_OPEN_SOURCE_REPO
        ELSE IF AnyWordIn(TipWords, combined) THEN INSTAGRAM_ENGAGEMENT_CONTENT
        ELSE NEW_TOOL_INTRO

\* line 423
BaseTags ==
    << <<"#","A","I">>,
       <<"#","A","r","t","i","f","i","c","i","a","l","I","n","t","e","l","l","i","g","e","n","c","e">>,
       <<"#","T","e","c","h">>,
       <<"#","I","n","n","o","v","a","t","i","o","n">> >>

\* lines 426-433 and category_tags.get(category, [])
CategoryTags(category) ==
    IF category = NEW_TOOL_INTRO THEN
        << <<"#","A","I","T","o","o","l","s">>,
           <<"#","P","r","o","d","u","c","t","L","a","u","n","c","h">>,
           <<"#","T","e","c","h","N","e","w","s">>,
           <<"#","N","e","w","T","e","c","h">> >>
    ELSE IF category = TOOL_DETAILED_TUTORIAL THEN
        << <<"#","T","u","t","o","r","i","a","l">>,
           <<"#","H","o","w","T","o">>, <<"#","L","e","a","r","n","A","I">>,
           <<"#","T","e","c","h","T","u","t","o","r","i","a","l">> >>
    ELSE IF category = TRENDING_AI_MODEL THEN
        << <<"#","A","I","M","o","d","e","l">>,
           <<"#","M","a","c","h","i","n","e","L","e","a","r","n","i","n","g">>,
           <<"#","D","e","e","p","L","e","a","r","n","i","n","g">>,
           <<"#","A","I","R","e","s","e","a","r","c","h">> >>
    ELSE IF category = AI_TRENDING_NEWS THEN
        << <<"#","A","I","N","e","w","s">>,
           <<"#","T","e","c","h","N","e","w","s">>,
           <<"#","T","r","e","n","d","i","n","g","N","o","w">>,
           <<"#","B","r","e","a","k","i","n","g","N","e","w","s">> >>
    ELSE IF category = GITHUB_OPEN_SOURCE_REPO THEN
        << <<"#","O","p","e","n","S","o","u","r","c","e">>,
           <<"#","G","i","t","H","u","b">>, <<"#","C","o","d","i","n","g">>,
           <<"#","D","e","v","e","l","o","p","e","r">> >>
    ELSE IF category = INSTAGRAM_ENGAGEMENT_CONTENT THEN
        << <<"#","T","e","c","h","T","i","p","s">>,
           <<"#","Q","u","i","c","k","T","i","p">>,
           <<"#","L","i","f","e","H","a","c","k">>,
           <<"#","P","r","o","d","u","c","t","i","v","i","t","y">> >>
    ELSE <<>>

RECURSIVE DictFromKeys(_, _)
\* list(dict.fromkeys(tags)): the first occurrence of each tag, in order
DictFromKeys(tags, seen) ==
    IF tags = <<>> THEN <<>>
    ELSE IF Head(tags) \in seen THEN DictFromKeys(Tail(tags), seen)
    ELSE <<Head(tags)>> \o DictFromKeys(Tail(tags), seen \cup {Head(tags)})

\* lines 436-437: a tag for each of the first three topic words longer than 4
TopicTags(t) ==
    LET words == SelectSeq(WsSplit(Lower(t)), LAMBDA w : Len(w) > 4)
    IN  Prefix([i \in 1..Len(words) |-> <<"#">> \o Capitalize(words[i])], 3)

\* _generate_hashtags(topic, category)
GenerateHashtags(t, category) ==
    Prefix(DictFromKeys(BaseTags \o CategoryTags(category) \o TopicTags(t), {}), 12)

\* ContentGenerator.generate(topic, context): the dict of lines 47-56
TemplateGenerate(t, context) ==
    LET category == ClassifyContent(t, context)
        storyline == <<"storyline of ">> \o category \o <<" for ">> \o t
                        \o (IF context # <<>> THEN <<" CONTEXT: ">> \o context
                            ELSE <<>>)
    IN  [ category |-> category,
          master_storyline |-> Str(storyline),
          youtube_script |-> Str(<<"youtube script of ">> \o storyline),
          instagram_script |-> Str(<<"instagram script of ">> \o storyline),
          twitter_thread |-> List(<< <<"hook of ">> \o storyline,
                                     <<"closing tweet">> >>),
          caption |-> Str(<<"caption of ">> \o storyline),
          cta |-> List(<< <<"cta 1 of ">> \o category,
                          <<"cta 2 of ">> \o category,
                          <<"cta 3 of ">> \o category >>),
          hashtags |-> List(GenerateHashtags(t, category)) ]

(***************************************************************************)
(* AIContentGenerator.generate, SupabaseDB.save_content and the            *)
(* /api/generate handler of src/api.py.  The three generators are built    *)
(* at import; their constructors catch every error of OpenRouterAI(), so   *)
(* they exist and ai_available tells whether OPENROUTER_API_KEY was set,   *)
(* the same for AIContentGenerator and MultiCategoryGenerator.  One        *)
(* request is one step: the handler runs to its answer.                    *)
(***************************************************************************)
MaxRequests == 2

NoRequest == [kind |-> "none"]
NoReply == [kind |-> "none"]

\* GenerateRequest: topic, context, generate_all, use_ai (the model name is
\* only passed on to the completion service)
ApiTopics ==
    { <<>>, <<"G","P","T">>,
      <<"T","u","t","o","r","i","a","l"," ","g","u","i","d","e">> }
ApiContexts == { <<>>, <<"n","e","w"," ","a","p","p">> }
ApiRequests ==
    [ topic : ApiTopics, context : ApiContexts,
      generate_all : BOOLEAN, use_ai : BOOLEAN ]

\* completion texts for one category: empty, marker-free, the full
\* document, a HASHTAGS section that repeats a tag
RepeatedTagText == HASHTAGS_M \o LineSep \o TagAI \o <<SP>> \o TagAI
ApiCompletionTexts ==
    { <<>>, <<"a">>, DocText(SectionNames, "line"), RepeatedTagText }

\* the answers of the six requests of one fan-out: all answered, one
\* failed, or all failed
FanOutAnswers == { NoneValue, Str(<<"a">>) }
ApiFanOuts ==
    { answs \in [1..Len(CATEGORIES) -> FanOutAnswers] :
         Cardinality({ i \in 1..Len(CATEGORIES) : answs[i] = NoneValue })
            \in {0, 1, Len(CATEGORIES)} }

\* raise HTTPException(status_code, detail)
HttpError(status_code, detail) ==
    [kind |-> "error", status_code |-> status_code, detail |-> detail]

\* return {"status": "success", "mode": mode, "data": data}
Success(mode, data) ==
    [kind |-> "ok", status |-> "success", mode |-> mode, data |-> data]

\* AIContentGenerator.generate with the service available (lines 52-63):
\* "if not response: raise", else the parsed record
AIGenerate(t, answ) ==
    IF ~HasResponse(answ)
    THEN [ raised |-> TRUE, detail |-> <<"Failed to generate content from AI">> ]
    ELSE [ raised |-> FALSE, val |-> AI_parse_response(answ.val, t) ]

RECURSIVE GenerateAllFrom(_, _, _)
\* generate_all with the service available (lines 62-75), given the answers
\* of its six requests: the records of the categories from i on
GenerateAllFrom(t, answs, i) ==
    IF i > Len(CATEGORIES) THEN <<>>
    ELSE (IF HasResponse(answs[i])
          THEN <<Multi_parse_response(answs[i].val, t, CATEGORIES[i])>>
          ELSE <<>>)
         \o GenerateAllFrom(t, answs, i + 1)

\* SupabaseDB.save_content(topic, category, content_data) when the commit
\* succeeds: the row added (lines 98-111) with its autoincrement id
SaveContent(store, t, category, content_data) ==
    Append(store,
           [ f \in (Fields \cup {"id"}) |->
                IF f = "id" THEN Len(store) + 1
                ELSE IF f = "topic" THEN t
                ELSE IF f = "category" THEN category
                ELSE content_data[f] ])

\* result['id'] = content_id
WithId(rec, content_id) ==
    [ f \in (DOMAIN rec \cup {"id"}) |-> IF f = "id" THEN content_id ELSE rec[f] ]

\* a handler that saves without looking at db_connected
StoreResultUnconditional(a, t, rec, ok) ==
    IF ok
    THEN [ raised |-> FALSE,
           store |-> SaveContent(a.store, t, rec.category, rec),
           data |-> WithId(rec, Len(a.store) + 1) ]
    ELSE [ raised |-> FALSE, store |-> a.store, data |-> rec ]

\* a save whose exception is not caught by the handler's inner try
StoreResultPropagates(a, t, rec, ok) ==
    IF a.db_connected /\ ok
    THEN [ raised |-> FALSE,
           store |-> SaveContent(a.store, t, rec.category, rec),
           data |-> WithId(rec, Len(a.store) + 1) ]
    ELSE [ raised |-> a.db_connected, store |-> a.store, data |-> rec,
           detail |-> <<"commit failed">> ]

\* api.py lines 93-102: save when the store is connected; a save that
\* raises rolls back (supabase_db.py 112-115), is printed and swallowed
StoreResult(a, t, rec, ok) ==
    IF a.db_connected /\ ok
    THEN [ raised |-> FALSE,
           store |-> SaveContent(a.store, t, rec.category, rec),
           data |-> WithId(rec, Len(a.store) + 1) ]
    ELSE [ raised |-> FALSE, store |-> a.store, data |-> rec ]

\* a handler that looks at use_ai before generate_all
SelectModeUseAiFirst(rq, ai_available) ==
    IF rq.use_ai /\ ai_available THEN "single_ai"
    ELSE IF rq.generate_all /\ ai_available THEN "multi"
    ELSE "template"

\* api.py lines 72-106: the branch of the handler a request takes
SelectMode(rq, ai_available) ==
    IF rq.generate_all /\ ai_available THEN "multi"
    ELSE IF rq.use_ai /\ ai_available THEN "single_ai"
    ELSE "template"

ApiInit ==
    /\ \E avail \in BOOLEAN, connected \in BOOLEAN :
          api = [ pc |-> "serving",
                  ai_available |-> avail,
                  db_connected |-> connected,
                  store |-> <<>>,
                  served |-> 0,
                  request |-> NoRequest,
                  answer |-> NoneValue,
                  save |-> "none",
                  reply |-> NoReply ]
    /\ response = <<>>
    /\ input = [family |-> "none"]
    /\ pc = "idle"
    /\ parser = "none"
    /\ topic = NoTopic
    /\ result = NoResult
    /\ raised = FALSE
    /\ ga = GAIdle
    /\ db = DbIdle
    /\ tw = TwIdle

\* lines 67-68: an empty topic is rejected before anything else
ApiGenerateEmptyTopic ==
    /\ api.pc = "serving"
    /\ api.served < MaxRequests
    /\ \E req \in ApiRequests :
          /\ req.topic = <<>>
          /\ api' = [api EXCEPT !.served = @ + 1,
                                !.request = req,
                                !.answer = NoneValue,
                                !.save = "none",
                                !.reply = HttpError(400, <<"Topic is required">>)]
    /\ UNCHANGED <<response, input, pc, parser, topic, result, raised, ga, db, tw>>

\* lines 75-82: the fan-out
ApiGenerateMulti ==
    /\ api.pc = "serving"
    /\ api.served < MaxRequests
    /\ \E req \in ApiRequests, answers \in ApiFanOuts :
          /\ req.topic # <<>>
          /\ SelectMode(req, api.ai_available) = "multi"
          /\ api' = [api EXCEPT
                       !.served = @ + 1,
                       !.request = req,
                       !.answer = List(answers),
                       !.save = "none",
                       !.reply = Success("multi",
                                         List(GenerateAllFrom(req.topic, answers, 1)))]
    /\ UNCHANGED <<response, input, pc, parser, topic, result, raised, ga, db, tw>>

\* lines 84-104 and 117-119: single-category AI generation, the save, and
\* the except that turns every exception into a 500 answer
ApiGenerateSingleAI ==
    /\ api.pc = "serving"
    /\ api.served < MaxRequests
    /\ \E req \in ApiRequests, outcome \in GenerateOutcomes,
          content \in ApiCompletionTexts, save_ok \in BOOLEAN :
          /\ req.topic # <<>>
          /\ SelectMode(req, api.ai_available) = "single_ai"
          /\ LET answer == OpenRouterGenerate(outcome, content)
                 gen == AIGenerate(req.topic, answer)
                 kept == StoreResult(api, req.topic, gen.val, save_ok)
             IN  api' =
                   IF gen.raised
                   THEN [api EXCEPT !.served = @ + 1,
                                    !.request = req,
                                    !.answer = answer,
                                    !.save = "none",
                                    !.reply = HttpError(500, gen.detail)]
                   ELSE IF kept.raised
                   THEN [api EXCEPT !.served = @ + 1,
                                    !.request = req,
                                    !.answer = answer,
                                    !.save = "raised",
                                    !.reply = HttpError(500, kept.detail)]
                   ELSE [api EXCEPT !.served = @ + 1,
                                    !.request = req,
                                    !.answer = answer,
                                    !.save = IF ~api.db_connected THEN "none"
                                             ELSE IF save_ok THEN "saved"
                                             ELSE "raised",
                                    !.store = kept.store,
                                    !.reply = Success("single_ai",
                                                      [kind |-> "dict",
                                                       val |-> kept.data])]
    /\ UNCHANGED <<response, input, pc, parser, topic, result, raised, ga, db, tw>>

\* lines 106-115: the template generator
ApiGenerateTemplate ==
    /\ api.pc = "serving"
    /\ api.served < MaxRequests
    /\ \E req \in ApiRequests :
          /\ req.topic # <<>>
          /\ SelectMode(req, api.ai_available) = "template"
          /\ api' = [api EXCEPT
                       !.served = @ + 1,
                       !.request = req,
                       !.answer = NoneValue,
                       !.save = "none",
                       !.reply = Success("template",
                                         [kind |-> "dict",
                                          val |-> TemplateGenerate(req.topic,
                                                                   req.context)])]
    /\ UNCHANGED <<response, input, pc, parser, topic, result, raised, ga, db, tw>>

ApiNext ==
    \/ ApiGenerateEmptyTopic
    \/ ApiGenerateMulti
    \/ ApiGenerateSingleAI
    \/ ApiGenerateTemplate

SpecApi == ApiInit /\ [][ApiNext]_vars

(***************************************************************************)
(* Properties of /api/generate.                                            *)
(***************************************************************************)
Answered == api.pc = "serving" /\ api.served > 0
Replied == Answered /\ api.reply.kind = "ok"

\* the records a successful answer carries
ReplyRecords ==
    IF api.reply.data.kind = "list"
    THEN { api.reply.data.val[i] : i \in 1..Len(api.reply.data.val) }
    ELSE { api.reply.data.val }

\* C16: in every final record, from the AI parser or from the template
\* generator, every hashtag starts with '#' and no hashtag appears twice,
\* also when the HASHTAGS section of the response repeats a tag.
C16_HashtagsPrefixedDistinct ==
    Replied =>
        \A rec \in ReplyRecords :
            /\ \A i \in 1..Len(rec.hashtags.val) :
                  /\ rec.hashtags.val[i] # <<>>
                  /\ Head(rec.hashtags.val[i]) = "#"
            /\ \A i, j \in 1..Len(rec.hashtags.val) :
                  i # j => rec.hashtags.val[i] # rec.hashtags.val[j]

\* the last request went to single-category AI generation
SingleAIRequested ==
    /\ Answered
    /\ api.request.topic # <<>>
    /\ api.ai_available
    /\ ~api.request.generate_all
    /\ api.request.use_ai

\* the completion service returned no text: None (error, non-200) or ''
NoCompletionText == api.answer.kind = "none" \/ api.answer.val = <<>>

\* C17: when the completion service returns no text for a single-category
\* generation, AIContentGenerator.generate does not raise and /api/generate
\* does not answer with an error status.
C17_NoTextIsNotAnError ==
    (SingleAIRequested /\ NoCompletionText) => api.reply.kind = "ok"

\* C18: in single-AI mode with the store connected, when save_content raises
\* the call still answers status success with mode single_ai and the
\* generated record unchanged, without an identifier, and no error reaches
\* the caller.
C18_SaveFailureIsSwallowed ==
    (SingleAIRequested /\ ~NoCompletionText /\ api.db_connected
        /\ api.save = "raised") =>
        /\ api.reply.kind = "ok"
        /\ api.reply.status = "success"
        /\ api.reply.mode = "single_ai"
        /\ api.reply.data.kind = "dict"
        /\ api.reply.data.val = AI_parse_response(api.answer.val, api.request.topic)
        /\ "id" \notin DOMAIN api.reply.data.val

\* the full document was generated, the save raised, the answer is the
\* parsed record
C18_Witness ==
    /\ SingleAIRequested
    /\ api.db_connected
    /\ api.save = "raised"
    /\ api.answer = Str(DocText(SectionNames, "line"))
    /\ api.reply.kind = "ok"
    /\ api.reply.data.val.category = TRENDING_AI_MODEL

\* C19: every successful answer carries exactly one mode among single_ai,
\* multi and template; data is the fan-out sequence exactly when the mode is
\* multi and a single record otherwise; with the AI service available
\* generate_all=true gives multi whatever use_ai is, generate_all=false with
\* use_ai=true gives single_ai, and every other request gives template.
C19_ModeFollowsRequest ==
    Replied =>
        /\ api.reply.mode \in {"single_ai", "multi", "template"}
        /\ api.reply.data.kind = (IF api.reply.mode = "multi" THEN "list" ELSE "dict")
        /\ (api.ai_available /\ api.request.generate_all)
              => api.reply.mode = "multi"
        /\ (api.ai_available /\ ~api.request.generate_all /\ api.request.use_ai)
              => api.reply.mode = "single_ai"
        /\ ~( \/ api.ai_available /\ api.request.generate_all
              \/ api.ai_available /\ ~api.request.generate_all /\ api.request.use_ai )
              => api.reply.mode = "template"

\* with the service available a request with generate_all and use_ai both
\* true was answered with the fan-out sequence
C19_Witness ==
    /\ Replied
    /\ api.ai_available
    /\ api.request.generate_all
    /\ api.request.use_ai
    /\ api.reply.mode = "multi"
    /\ api.reply.data.kind = "list"
    /\ Len(api.reply.data.val) = Len(CATEGORIES) - 1

(***************************************************************************)
(* Further properties of the parsers.                                      *)
(***************************************************************************)
\* C21: in both parsers each field no section filled holds its documented
\* default: master_storyline the first 500 characters of the raw response,
\* twitter_thread the one-element sequence of its first 280 characters, cta
\* a fixed 3-item list, hashtags a fixed 3-item list.  (A field whose marker
\* the text does not hold is filled by no section.)
C21_DocumentedDefaults ==
    Done =>
        /\ ~Contains(response, MASTER_STORYLINE_M) =>
              Same(result.master_storyline, Str(Prefix(response, 500)))
        /\ ~Contains(response, TWITTER_THREAD_M) =>
              Same(result.twitter_thread, List(<<Prefix(response, 280)>>))
        /\ ~Contains(response, CTA_M) =>
              (result.cta.kind = "list" /\ Len(result.cta.val) = 3)
        /\ ~Contains(response, HASHTAGS_M) =>
              (result.hashtags.kind = "list" /\ Len(result.hashtags.val) = 3)

\* C22: a marker keyword in the middle of a content line does not change
\* the current section, and the line is kept as content of the current
\* section (here: a text section opened by its marker).
C22_MidLineKeywordIsContent ==
    (Done /\ input.family = "mid" /\ input.current \in TextFields) =>
        /\ result[input.current].kind = "str"
        /\ Contains(result[input.current].val, MidLine(input.keyword))

\* the field holds the text: inside a str, or as an element of a list
HoldsText(field, text) ==
    IF field.kind = "str" THEN Contains(field.val, text)
    ELSE \E i \in 1..Len(field.val) : field.val[i] = text

\* C23: whenever a marker appears while a section with buffered content is
\* current, the buffer is stored in that section's field before the new
\* section starts, for every pair (current section, next marker); no
\* non-empty section content is discarded.  (The markers stand where each
\* parser looks for them: on paragraphs of their own for the single-category
\* parser, on lines of their own for the fan-out parser.)
C23_BufferStoredAtNextMarker ==
    (Done /\ input.family = "pair"
          /\ input.current \in (TextFields \cup {"twitter_thread", "cta"})
          /\ input.next # input.current
          /\ (parser = "ai" => input.sep = ParaSep)
          /\ (parser = "multi" => input.sep = LineSep)) =>
        HoldsText(result[input.current], <<"b">>)

\* C24: in every record of either parser twitter_thread and cta are
\* sequences of strings, never a bare string, and the text fields are
\* strings, for every order of markers.
C24_FieldTypes ==
    Done =>
        /\ result.twitter_thread.kind = "list"
        /\ result.cta.kind = "list"
        /\ result.hashtags.kind = "list"
        /\ \A f \in TextFields : result[f].kind = "str"

(***************************************************************************)
(* Further properties of /api/generate.                                    *)
(***************************************************************************)
\* C25: the record answered in template mode has every field of a
\* generated record, topic included and equal to the requested topic,
\* as the records of the AI modes have.
C25_TemplateRecordComplete ==
    (Replied /\ api.reply.mode = "template") =>
        /\ Fields \subseteq DOMAIN api.reply.data.val
        /\ api.reply.data.val.topic = api.request.topic

\* C29: over any sequence of requests, a step changes the store only when
\* the store is connected and the step is a single-AI generation that
\* succeeded, and then it appends exactly one row; answers in mode multi
\* or template, rejections of an empty topic and generations that raised
\* leave the store as it was.
C29_StoreWrittenOnlyBySingleAI ==
    [][ api'.store # api.store =>
            /\ api.db_connected
            /\ api'.reply.kind = "ok"
            /\ api'.reply.mode = "single_ai"
            /\ api'.request.topic # <<>>
            /\ Len(api'.store) = Len(api.store) + 1
            /\ \A i \in 1..Len(api.store) : api'.store[i] = api.store[i]
            /\ api'.store[Len(api'.store)].topic = api'.request.topic ]_vars

\* a row was stored by one request and a later request, answered from the
\* templates, left it there
C29_Witness ==
    /\ api.served = 2
    /\ Len(api.store) = 1
    /\ api.reply.kind = "ok"
    /\ api.reply.mode = "template"

(***************************************************************************)
(* The content_history store: SupabaseDB (src/database/supabase_db.py),    *)
(* Database (src/database/db.py) and the read endpoints of src/api.py.     *)
(* One call is one step.  Rows live in the table of the database server;   *)
(* every session operation of a call (the query, the commit, the refresh)  *)
(* succeeds or raises.  Time is counted in hours.                          *)
(***************************************************************************)
MaxCalls == 3

StoreClasses == { "SupabaseDB", "Database" }
ContentKeys == Fields \ { "topic", "category" }
RowFields == Fields \cup { "id", "created_at" }

\* inputs of save_content
SavedTopics ==
    { [topic |-> <<"a">>, category |-> NEW_TOOL_INTRO],
      [topic |-> <<"b">>, category |-> AI_TRENDING_NEWS] }
FullContent ==
    [ f \in ContentKeys |-> IF f \in SeqFields THEN << <<"x">> >> ELSE <<"x">> ]
PartialContent ==
    [ f \in (ContentKeys \ { "hashtags" }) |->
         IF f \in SeqFields THEN << <<"x">> >> ELSE <<"x">> ]
StoreContents == { FullContent, PartialContent }
SaveOutcomes == { "ok", "connect_raises", "commit_raises", "refresh_raises" }

\* inputs of the reads
ContentIds == 1..MaxCalls
Limits == { 0, 1, MaxCalls }
CategoryFilters ==
    { NoneValue, Str(<<>>), Str(NEW_TOOL_INTRO), Str(AI_TRENDING_NEWS) }
DateFilters == { "All Time", "Today", "This Week", "This Month", "Last Year" }
\* hours between two readings of datetime.now(): none, or a month and an
\* hour
Elapsed == { 0, 31 * 24 + 1 }

NoCall == [op |-> "none"]

\* created_at.isoformat() if created_at else None
IsoFormat(created_at) == [kind |-> "isoformat", of |-> created_at]

\* ContentHistory(...), session.add, session.commit: the row of lines
\* 97-110 with the id of the sequence and created_at = datetime.now()
InsertRow(rows, id, t, category, content_data, now) ==
    rows \cup
      { [ f \in RowFields |->
            IF f = "id" THEN id
            ELSE IF f = "created_at" THEN now
            ELSE IF f = "topic" THEN t
            ELSE IF f = "category" THEN category
            ELSE content_data[f] ] }

\* save_content(topic, category, content_data) of both classes
\* (supabase_db.py 91-117, db.py 105-141).  A KeyError of content_data[...]
\* and a failed INSERT or COMMIT are rolled back and raised again; the
\* sequence value of a failed INSERT is not given back.  session.refresh
\* runs after the commit, so when it raises the row is already stored and
\* the rollback of the except branch has nothing to undo.
SaveContentCall(store, t, category, content_data, outcome, now) ==
    IF ~store.connected
    THEN [ raised |-> TRUE, detail |-> <<"Database not connected">>,
           rows |-> store.rows, next_id |-> store.next_id ]
    ELSE IF ~(ContentKeys \subseteq DOMAIN content_data)
    THEN [ raised |-> TRUE, detail |-> <<"KeyError">>,
           rows |-> store.rows, next_id |-> store.next_id ]
    ELSE IF outcome = "connect_raises"
    THEN [ raised |-> TRUE, detail |-> <<"OperationalError">>,
           rows |-> store.rows, next_id |-> store.next_id ]
    ELSE IF outcome = "commit_raises"
    THEN [ raised |-> TRUE, detail |-> <<"OperationalError">>,
           rows |-> store.rows, next_id |-> store.next_id + 1 ]
    ELSE IF outcome = "refresh_raises"
    THEN [ raised |-> TRUE, detail |-> <<"OperationalError">>,
           rows |-> InsertRow(store.rows, store.next_id, t, category,
                              content_data, now),
           next_id |-> store.next_id + 1 ]
    ELSE [ raised |-> FALSE, val |-> store.next_id,
           rows |-> InsertRow(store.rows, store.next_id, t, category,
                              content_data, now),
           next_id |-> store.next_id + 1 ]

\* "if category_filter:" of get_history
FilterGiven(category_filter) ==
    category_filter.kind # "none" /\ category_filter.val # <<>>

\* the date filters that set start_date (lines 139-147)
HasStartDate(date_filter) ==
    date_filter \in { "Today", "This Week", "This Month" }

\* now.replace(hour=0, ...), now - timedelta(days=7), now - timedelta(days=30)
StartDate(date_filter, now) ==
    IF date_filter = "Today" THEN now - (now % 24)
    ELSE IF date_filter = "This Week" THEN now - 7 * 24
    ELSE now - 30 * 24

\* the rows the filtered query selects
Matching(rows, category_filter, date_filter, now) ==
    { r \in rows :
        /\ FilterGiven(category_filter) => r.category = category_filter.val
        /\ HasStartDate(date_filter) =>
              r.created_at >= StartDate(date_filter, now) }

\* the orders ORDER BY created_at DESC can deliver: rows of equal
\* created_at come in any order
NewestFirst(S) ==
    { o \in [1..Cardinality(S) -> S] :
        /\ \A i, j \in 1..Cardinality(S) : i # j => o[i] # o[j]
        /\ \A i, j \in 1..Cardinality(S) :
              i < j => o[i].created_at >= o[j].created_at }

\* the dict of a list entry (lines 155-163)
Summary(r) ==
    [ id |-> r.id, topic |-> r.topic, category |-> r.category,
      created_at |-> IsoFormat(r.created_at) ]

\* ContentHistory.to_dict
ToDict(r) ==
    [ f \in RowFields |->
        IF f = "created_at" THEN IsoFormat(r.created_at) ELSE r[f] ]

\* a get_history that forgets .limit(limit)
GetHistoryUnlimited(store, limit, order, ok) ==
    IF ~store.connected THEN <<>>
    ELSE IF ~ok THEN <<>>
    ELSE [ i \in 1..Len(order) |-> Summary(order[i]) ]

\* SupabaseDB.get_history once the query is built: not connected or a
\* query that raises give [], else the summaries of the first limit rows
\* of the ordered selection
GetHistory(store, limit, order, ok) ==
    IF ~store.connected THEN <<>>
    ELSE IF ~ok THEN <<>>
    ELSE Prefix([ i \in 1..Len(order) |-> Summary(order[i]) ], limit)

\* get_content_by_id of both classes (supabase_db.py 170-187,
\* db.py 178-204): None when not connected, when the query raises and when
\* no row has the id
GetContentById(store, content_id, ok) ==
    IF ~store.connected \/ ~ok THEN NoneValue
    ELSE IF \E r \in store.rows : r.id = content_id
    THEN [ kind |-> "dict",
           val |-> ToDict(CHOOSE r \in store.rows : r.id = content_id) ]
    ELSE NoneValue

\* Database.delete_content (db.py 206-234): False when not connected, when
\* no row has the id and when the query or the commit raises
DeleteContent(store, content_id, ok) ==
    IF store.connected /\ ok /\ (\E r \in store.rows : r.id = content_id)
    THEN [ val |-> TRUE,
           rows |-> { r \in store.rows : r.id # content_id } ]
    ELSE [ val |-> FALSE, rows |-> store.rows ]

\* str(e) of the HTTPException caught by "except Exception as e", as
\* Starlette formats it
ExceptionText(e) == <<e.status_code, ": ">> \o e.detail

\* GET /api/content/{content_id} of api.py (lines 132-143): the 404 is
\* raised inside the try and "except Exception" answers it as a 500
ApiContentReply(store, content_id, ok) ==
    IF ~store.db_connected
    THEN HttpError(503, <<"Database not connected">>)
    ELSE IF GetContentById(store, content_id, ok).kind = "none"
    THEN HttpError(500,
                   ExceptionText(HttpError(404, <<"Content not found">>)))
    ELSE [ kind |-> "ok", status |-> "success",
           data |-> GetContentById(store, content_id, ok) ]

\* GET /api/history of api.py (lines 121-130)
ApiHistoryReply(store, limit, order, ok) ==
    IF ~store.db_connected
    THEN [ kind |-> "ok", status |-> "error",
           message |-> <<"Database not connected">>, data |-> <<>> ]
    ELSE [ kind |-> "ok", status |-> "success",
           data |-> GetHistory(store, limit, order, ok) ]

\* the store after construction: connected tells whether create_engine
\* succeeded, db_connected is api.py's db.test_connection() at import
StoreInit ==
    /\ \E class \in StoreClasses, connected \in BOOLEAN, tested \in BOOLEAN :
          db = [ pc |-> "open",
                 class |-> class,
                 connected |-> connected,
                 db_connected |-> connected /\ tested,
                 rows |-> {},
                 next_id |-> 1,
                 clock |-> 0,
                 calls |-> 0,
                 returned |-> {},
                 deletes |-> {},
                 call |-> NoCall ]
    /\ response = <<>>
    /\ input = [family |-> "none"]
    /\ pc = "idle"
    /\ parser = "none"
    /\ topic = NoTopic
    /\ result = NoResult
    /\ raised = FALSE
    /\ ga = GAIdle
    /\ api = ApiIdle
    /\ tw = TwIdle

DbSaveContent ==
    /\ db.pc = "open"
    /\ db.calls < MaxCalls
    /\ \E arg \in SavedTopics, content_data \in StoreContents,
          outcome \in SaveOutcomes, dt \in Elapsed :
          LET now == db.clock + dt
              saved == SaveContentCall(db, arg.topic, arg.category,
                                       content_data, outcome, now)
          IN  db' = [db EXCEPT
                       !.calls = @ + 1,
                       !.clock = now,
                       !.rows = saved.rows,
                       !.next_id = saved.next_id,
                       !.returned =
                           IF saved.raised THEN @
                           ELSE @ \cup { [ id |-> saved.val,
                                           topic |-> arg.topic,
                                           category |-> arg.category,
                                           content_data |-> content_data ] },
                       !.call = [ op |-> "save_content",
                                  raised |-> saved.raised,
                                  before |-> db.rows,
                                  ret |-> IF saved.raised THEN NoneValue
                                          ELSE [kind |-> "int",
                                                val |-> saved.val] ]]
    /\ UNCHANGED <<response, input, pc, parser, topic, result, raised, ga,
                   api, tw>>

DbGetHistory ==
    /\ db.pc = "open"
    /\ db.class = "SupabaseDB"
    /\ db.calls < MaxCalls
    /\ \E limit \in Limits, category_filter \in CategoryFilters,
          date_filter \in DateFilters, ok \in BOOLEAN, dt \in Elapsed :
          \E order \in NewestFirst(Matching(db.rows, category_filter,
                                            date_filter, db.clock + dt)) :
             db' = [db EXCEPT
                      !.calls = @ + 1,
                      !.clock = @ + dt,
                      !.call = [ op |-> "get_history",
                                 limit |-> limit,
                                 category_filter |-> category_filter,
                                 date_filter |-> date_filter,
                                 ok |-> ok,
                                 ret |-> GetHistory(db, limit, order, ok) ]]
    /\ UNCHANGED <<response, input, pc, parser, topic, result, raised, ga,
                   api, tw>>

DbGetContentById ==
    /\ db.pc = "open"
    /\ db.calls < MaxCalls
    /\ \E content_id \in ContentIds, ok \in BOOLEAN :
          db' = [db EXCEPT
                   !.calls = @ + 1,
                   !.call = [ op |-> "get_content_by_id",
                              content_id |-> content_id,
                              ok |-> ok,
                              ret |-> GetContentById(db, content_id, ok) ]]
    /\ UNCHANGED <<response, input, pc, parser, topic, result, raised, ga,
                   api, tw>>

DbDeleteContent ==
    /\ db.pc = "open"
    /\ db.class = "Database"
    /\ db.calls < MaxCalls
    /\ \E content_id \in ContentIds, ok \in BOOLEAN :
          db' = [db EXCEPT
                   !.calls = @ + 1,
                   !.rows = DeleteContent(db, content_id, ok).rows,
                   !.deletes =
                       IF \E s \in db.returned : s.id = content_id
                       THEN @ \cup { content_id } ELSE @,
                   !.call = [ op |-> "delete_content",
                              content_id |-> content_id,
                              ok |-> ok,
                              before |-> db.rows,
                              ret |-> DeleteContent(db, content_id, ok).val ]]
    /\ UNCHANGED <<response, input, pc, parser, topic, result, raised, ga,
                   api, tw>>

ApiHistory ==
    /\ db.pc = "open"
    /\ db.class = "SupabaseDB"
    /\ db.calls < MaxCalls
    /\ \E limit \in Limits, category \in CategoryFilters, ok \in BOOLEAN :
          \E order \in NewestFirst(Matching(db.rows, category, "All Time",
                                            db.clock)) :
             db' = [db EXCEPT
                      !.calls = @ + 1,
                      !.call = [ op |-> "api_history",
                                 limit |-> limit,
                                 category_filter |-> category,
                                 ok |-> ok,
                                 reply |-> ApiHistoryReply(db, limit, order,
                                                           ok) ]]
    /\ UNCHANGED <<response, input, pc, parser, topic, result, raised, ga,
                   api, tw>>

ApiContent ==
    /\ db.pc = "open"
    /\ db.class = "SupabaseDB"
    /\ db.calls < MaxCalls
    /\ \E content_id \in ContentIds, ok \in BOOLEAN :
          db' = [db EXCEPT
                   !.calls = @ + 1,
                   !.call = [ op |-> "api_content",
                              content_id |-> content_id,
                              ok |-> ok,
                              reply |-> ApiContentReply(db, content_id, ok) ]]
    /\ UNCHANGED <<response, input, pc, parser, topic, result, raised, ga,
                   api, tw>>

StoreNext ==
    \/ DbSaveContent
    \/ DbGetHistory
    \/ DbGetContentById
    \/ DbDeleteContent
    \/ ApiHistory
    \/ ApiContent

SpecStore == StoreInit /\ [][StoreNext]_vars

(***************************************************************************)
(* Properties of the store and of its endpoints.                           *)
(***************************************************************************)
StoreCalled(op) == db.pc = "open" /\ db.call.op = op

Stored(rows, content_id) == \E r \in rows : r.id = content_id

\* C26: with the store connected, GET /api/content/{content_id} of api.py
\* answers 404 when no record has the id and the lookup worked, and
\* answers 500 only when the lookup itself raised.
C26_AbsentIdAnswers404 ==
    (StoreCalled("api_content") /\ db.db_connected) =>
        /\ (db.call.ok /\ ~Stored(db.rows, db.call.content_id)) =>
              /\ db.call.reply.kind = "error"
              /\ db.call.reply.status_code = 404
        /\ (db.call.reply.kind = "error" /\ db.call.reply.status_code = 500)
              => ~db.call.ok

\* the list a history read returned, from get_history itself or through
\* GET /api/history, and what the read was asked
HistoryCalled == StoreCalled("get_history") \/ StoreCalled("api_history")
HistoryReturned ==
    IF db.call.op = "get_history" THEN db.call.ret ELSE db.call.reply.data
HistoryWorked ==
    /\ db.connected
    /\ db.call.ok
    /\ db.call.op = "api_history" => db.db_connected
NoDateFilter ==
    db.call.op = "api_history" \/ db.call.date_filter = "All Time"
CategoryWanted(r) ==
    FilterGiven(db.call.category_filter) =>
        r.category = db.call.category_filter.val
IsSummaryOf(entry, r) ==
    /\ DOMAIN entry = { "id", "topic", "category", "created_at" }
    /\ entry.id = r.id
    /\ entry.topic = r.topic
    /\ entry.category = r.category
    /\ entry.created_at = IsoFormat(r.created_at)
Returned(r) ==
    \E i \in 1..Len(HistoryReturned) : HistoryReturned[i].id = r.id

\* C28: get_history returns at most limit summaries, each of a stored
\* record and no record twice, all of the wanted category when a filter
\* is given, ordered newest first; without a date filter they are the
\* newest records of the wanted category: as many as the limit allows,
\* and no record left out is newer than a returned one.  When the store
\* is not connected or the query fails the list is empty.
C28_HistoryNewestMatching ==
    HistoryCalled =>
        /\ Len(HistoryReturned) <= db.call.limit
        /\ \A i \in 1..Len(HistoryReturned) :
              /\ \E r \in db.rows : IsSummaryOf(HistoryReturned[i], r)
              /\ CategoryWanted(HistoryReturned[i])
              /\ \A j \in 1..Len(HistoryReturned) :
                    /\ i < j => HistoryReturned[i].created_at.of
                                   >= HistoryReturned[j].created_at.of
                    /\ i # j => HistoryReturned[i].id # HistoryReturned[j].id
        /\ (HistoryWorked /\ NoDateFilter) =>
              /\ \/ Len(HistoryReturned) = db.call.limit
                 \/ \A r \in db.rows : CategoryWanted(r) => Returned(r)
              /\ \A r \in db.rows :
                    (CategoryWanted(r) /\ ~Returned(r)) =>
                        \A i \in 1..Len(HistoryReturned) :
                            r.created_at <= HistoryReturned[i].created_at.of
        /\ ~HistoryWorked => HistoryReturned = <<>>

\* two records of the wanted category are stored at different times and a
\* read with limit 1 returned the newer one
C28_Witness ==
    /\ StoreCalled("get_history")
    /\ HistoryWorked
    /\ NoDateFilter
    /\ FilterGiven(db.call.category_filter)
    /\ db.call.limit = 1
    /\ Len(HistoryReturned) = 1
    /\ \E r \in db.rows :
          /\ CategoryWanted(r)
          /\ r.created_at < HistoryReturned[1].created_at.of

\* the save_content call that returned content_id, when it has not been
\* followed by delete_content(content_id)
LiveSaves(content_id) ==
    { s \in db.returned : s.id = content_id /\ content_id \notin db.deletes }

\* C30: on a connected Database, get_content_by_id(k) returns the record
\* whose fields equal those passed to the save_content call that returned
\* k, from that save until delete_content(k), and None otherwise;
\* delete_content(k) returns True exactly when k is stored at that moment;
\* a save_content that raises leaves the stored records unchanged.
C30_SaveGetDelete ==
    (db.pc = "open" /\ db.class = "Database" /\ db.connected) =>
        /\ db.call.op = "get_content_by_id" =>
              IF LiveSaves(db.call.content_id) # {}
              THEN /\ db.call.ret.kind = "dict"
                   /\ \A s \in LiveSaves(db.call.content_id) :
                         /\ db.call.ret.val.id = s.id
                         /\ db.call.ret.val.topic = s.topic
                         /\ db.call.ret.val.category = s.category
                         /\ \A f \in ContentKeys :
                               db.call.ret.val[f] = s.content_data[f]
              ELSE db.call.ret = NoneValue
        /\ db.call.op = "delete_content" =>
              (db.call.ret <=> Stored(db.call.before, db.call.content_id))
        /\ (db.call.op = "save_content" /\ db.call.raised) =>
              db.rows = db.call.before

(***************************************************************************)
(* ContentGenerator._adapt_for_twitter and _extract_hook                   *)
(* (src/engine/content_generator.py).  A character outside ASCII is one    *)
(* element of the string, written by its code point.                       *)
(***************************************************************************)
MaxLines == 3

SectionLimit == 5
TweetLimit == 280
MinContentLen == 15
MinHookLen == 20
MaxTweets == 6

\* the character class of the re.sub calls
Emojis ==
    { "U+1F525", "U+1F4A1", "U+1F680", "U+2728", "U+1F3AF", "U+1F48E",
      "U+1F4E2", "U+274C", "U+1F4CB", "U+26A1", "U+1F6AB", "U+2705",
      "U+1F6A8", "U+1F916", "U+1F4CA", "U+1F30D", "U+1F465", "U+1F52E",
      "U+1F4F0", "U+1F9E0", "U+1F3E2", "U+1F4AC", "U+2B50", "U+1F4E6",
      "U+1F511", "U+1F4BB", "U+1F4C8", "U+2753" }
MEMO == "U+1F4DD"
THREAD == "U+1F9F5"

\* re.sub(r'[...]', '', line).strip()
CleanLine(line) == Strip(SelectSeq(line, LAMBDA c : c \notin Emojis))

DefaultHook ==
    << "T", "h", "i", "s", SP, "i", "s", SP, "g", "o", "i", "n", "g", SP, "t",
       "o", SP, "c", "h", "a", "n", "g", "e", SP, "e", "v", "e", "r", "y",
       "t", "h", "i", "n", "g", "." >>

\* s.endswith(p)
EndsWith(s, p) ==
    Len(p) <= Len(s) /\ SubSeq(s, Len(s) - Len(p) + 1, Len(s)) = p

RECURSIVE HookFrom(_, _)
\* the loop of _extract_hook from line i on
HookFrom(lines, i) ==
    IF i > Len(lines) THEN DefaultHook
    ELSE IF /\ CleanLine(lines[i]) # <<>>
            /\ Len(CleanLine(lines[i])) > MinHookLen
            /\ ~EndsWith(CleanLine(lines[i]), <<":">>)
    THEN CleanLine(lines[i])
    ELSE HookFrom(lines, i + 1)

ExtractHook(storyline) == HookFrom(Split(storyline, LineSep), 1)

Digits == <<"0", "1", "2", "3", "4", "5", "6", "7", "8", "9">>

RECURSIVE IntStr(_)
\* str(n) of the f-strings, n >= 0
IntStr(n) ==
    IF n < 10 THEN <<Digits[n + 1]>>
    ELSE IntStr(n \div 10) \o <<Digits[(n % 10) + 1]>>

RECURSIVE SectionsFrom(_, _, _)
\* the loop that pairs the meaningful lines (lines 329-338), from line i
\* on with current_section as it stands
SectionsFrom(lines, i, current_section) ==
    IF i > Len(lines) THEN <<>>
    ELSE IF /\ Strip(lines[i]) # <<>>
            /\ ~StartsWith(lines[i], <<MEMO>>)
            /\ CleanLine(lines[i]) # <<>>
            /\ Len(CleanLine(lines[i])) > MinContentLen
    THEN IF Len(current_section) + 1 >= 2
         THEN << Prefix(Append(current_section, CleanLine(lines[i])), 2) >>
                 \o SectionsFrom(lines, i + 1, <<>>)
         ELSE SectionsFrom(lines, i + 1,
                           Append(current_section, CleanLine(lines[i])))
    ELSE SectionsFrom(lines, i + 1, current_section)

\* the text of a numbered tweet (lines 342-344)
TweetContent(section) ==
    IF Len(Join(Prefix(section, 2), LineSep)) > TweetLimit
    THEN Prefix(Join(Prefix(section, 2), LineSep), TweetLimit - 3)
            \o <<".", ".", ".">>
    ELSE Join(Prefix(section, 2), LineSep)

\* for i, section in enumerate(sections_kept, 2): tweets.append(...)
NumberedTweets(sections_kept) ==
    [ k \in 1..Len(sections_kept) |->
        IntStr(k + 1) \o <<"/", SP>> \o TweetContent(sections_kept[k]) ]

ThreadMark ==
    << NL, NL, "A", SP, "t", "h", "r", "e", "a", "d", SP >> \o <<THREAD>>

ClosingText ==
    << SP, "F", "o", "u", "n", "d", SP, "t", "h", "i", "s", SP, "h", "e", "l",
       "p", "f", "u", "l", "?", NL, NL, "U+2022", SP, "F", "o", "l", "l", "o",
       "w", SP, "m", "e", SP, "f", "o", "r", SP, "d", "a", "i", "l", "y", SP,
       "A", "I", SP, "i", "n", "s", "i", "g", "h", "t", "s", NL, "U+2022", SP,
       "R", "T", SP, "t", "h", "e", SP, "f", "i", "r", "s", "t", SP, "t", "w",
       "e", "e", "t", SP, "t", "o", SP, "s", "h", "a", "r", "e", NL, "U+2022",
       SP, "R", "e", "p", "l", "y", SP, "w", "i", "t", "h", SP, "y", "o", "u",
       "r", SP, "t", "h", "o", "u", "g", "h", "t", "s", "!" >>

\* _adapt_for_twitter(storyline, category): the hook tweet, a tweet for
\* each of the first SectionLimit sections, numbered from 2, and the
\* closing tweet numbered len(tweets) + 1
AdaptForTwitter(storyline, category) ==
    << ExtractHook(storyline) \o ThreadMark >>
    \o NumberedTweets(Prefix(SectionsFrom(Split(storyline, LineSep), 1, <<>>),
                             SectionLimit))
    \o << IntStr(Len(NumberedTweets(
                        Prefix(SectionsFrom(Split(storyline, LineSep), 1, <<>>),
                               SectionLimit))) + 2)
            \o <<"/">> \o ClosingText >>

\* the lines storylines are drawn from: empty, at most MinContentLen
\* characters, between the two thresholds, a heading ending in ':', a
\* hook-sized line, the same behind an emoji, a note line, and a line of
\* more than half a tweet
ShortLine ==
    << "a", SP, "s", "h", "o", "r", "t", SP, "l", "i", "n", "e" >>
MidLengthLine ==
    << "s", "e", "v", "e", "n", "t", "e", "e", "n", SP, "l", "e", "t", "t",
       "e", "r", "s" >>
HeadingLine ==
    << "W", "h", "a", "t", SP, "t", "h", "e", SP, "n", "e", "w", SP, "t", "o",
       "o", "l", SP, "b", "r", "i", "n", "g", "s", ":" >>
HookLine ==
    << "A", SP, "n", "e", "w", SP, "t", "o", "o", "l", SP, "c", "h", "a", "n",
       "g", "e", "s", SP, "c", "o", "d", "i", "n", "g" >>
EmojiLine ==
    << "U+1F680", SP, "L", "a", "u", "n", "c", "h", SP, "w", "e", "e", "k",
       SP, "f", "o", "r", SP, "b", "u", "i", "l", "d", "e", "r", "s" >>
NoteLine ==
    << "U+1F4DD", SP, "C", "o", "n", "t", "e", "x", "t", ":", SP, "i", "t",
       SP, "s", "h", "i", "p", "s", SP, "t", "o", "d", "a", "y" >>
HugeLine == Filler(TweetLimit \div 2)
LineKinds ==
    { <<>>, ShortLine, MidLengthLine, HeadingLine, HookLine, EmojiLine,
      NoteLine, HugeLine }

\* storylines of up to MaxLines lines
ShortStorylines ==
    { Join(ls, LineSep) :
        ls \in UNION { [1..n -> LineKinds] : n \in 0..MaxLines } }

\* line k of a storyline of distinct meaningful lines
NumberedLine(k) ==
    << "P", "o", "i", "n", "t", SP, "n", "u", "m", "b", "e", "r", SP >> \o IntStr(k) \o
    << SP, "o", "f", SP, "t", "h", "e", SP, "s", "t", "o", "r", "y" >>

\* storylines of n meaningful lines, n around twice SectionLimit
LineCounts ==
    { 2 * SectionLimit - 2, 2 * SectionLimit - 1, 2 * SectionLimit,
      2 * SectionLimit + 3 }
LongStoryline(n) == Join([ k \in 1..n |-> NumberedLine(k) ], LineSep)

TemplateCategories == { NEW_TOOL_INTRO, AI_TRENDING_NEWS }

ThreadInit ==
    /\ \E category \in TemplateCategories :
          \/ \E storyline \in ShortStorylines :
                tw = [ pc |-> "start", family |-> "short",
                       storyline |-> storyline, category |-> category ]
          \/ \E n \in LineCounts :
                tw = [ pc |-> "start", family |-> "long",
                       storyline |-> LongStoryline(n), category |-> category ]
    /\ response = <<>>
    /\ input = [family |-> "none"]
    /\ pc = "idle"
    /\ parser = "none"
    /\ topic = NoTopic
    /\ result = NoResult
    /\ raised = FALSE
    /\ ga = GAIdle
    /\ api = ApiIdle
    /\ db = DbIdle

AdaptForTwitterCall ==
    /\ tw.pc = "start"
    /\ tw' = [ pc |-> "done", family |-> tw.family,
               storyline |-> tw.storyline, category |-> tw.category,
               tweets |-> AdaptForTwitter(tw.storyline, tw.category) ]
    /\ UNCHANGED <<response, input, pc, parser, topic, result, raised, ga,
                   api, db>>

ThreadNext == AdaptForTwitterCall

SpecThread == ThreadInit /\ [][ThreadNext]_vars

(***************************************************************************)
(* Properties of the template thread.                                      *)
(***************************************************************************)
\* C27: for every storyline the thread has at most MaxTweets tweets, its
\* first tweet is the hook, its last tweet is the call-to-action, and
\* tweet i, from the second to the last, carries the number i.
C27_ThreadAtMostSixTweets ==
    tw.pc = "done" =>
        /\ Len(tw.tweets) <= MaxTweets
        /\ tw.tweets[1] = ExtractHook(tw.storyline) \o ThreadMark
        /\ EndsWith(tw.tweets[Len(tw.tweets)], ClosingText)
        /\ \A i \in 2..Len(tw.tweets) :
              StartsWith(tw.tweets[i], IntStr(i) \o <<"/">>)

====
